---- MODULE Spec2Model ----
(***************************************************************************)
(* A model of spidior's automaton engine (src/src/nfa/mod.rs) and of its   *)
(* C-like source scanners (src/src/languages/clike.rs).                    *)
(*                                                                         *)
(* Node pointers are the natural numbers 0, 1, ... (NodePointer.id); the   *)
(* arena `nfa` is the sequence of its nodes, a node being the sequence of  *)
(* its outgoing transitions, so node id n is nfa[n + 1].                   *)
(***************************************************************************)
EXTENDS Integers, Sequences, FiniteSets, TLC

VARIABLES
    nfa,        \* Nfa.nodes of the arena under construction / being walked
    res,        \* the last call: "ok" or "err" as a builder call returned,
                \* "new", "step" or "closure" for a call of Context
    ctx,        \* Context.nodes of the live simulation context
    model,      \* the NfaModel handed to to_dfa: [nfa, start, end]
    dfa,        \* what to_dfa returned (see to_dfa), or NoResult
    ctxSrc,     \* context walking model.nfa
    ctxDfa,     \* context walking dfa.nfa
    fed,        \* the input symbols fed to ctxSrc and ctxDfa so far
    dfa2,       \* the result of to_dfa on dfa, NoResult before the call
    ctxDfa2,    \* the Context walking dfa2
    scans,      \* for each independent scan over nfa, the Contexts it has
                \* made, oldest first, and the input symbols it has stepped on
    text,       \* the characters of `text` the scanner's loop has read so far
    queue,      \* the characters of the fragment being read, not yet read
    frags,      \* how many fragments of input have been taken
    fsm,        \* read_functions: s, the FunctionFsm state
    start,      \* read_functions: start
    end,        \* read_functions: end
    functions,  \* read_functions: v, the names of the Functions pushed
    fpc,        \* read_functions: "scanning", "returned" or "panicked"
    expected,   \* the names of the declarations fed so far, in order
    ifsm,       \* read_identifiers: s, the IFsm state
    n1s,        \* read_identifiers: n1s
    n1e,        \* read_identifiers: n1e
    n2s,        \* read_identifiers: n2s
    identifiers, \* read_identifiers: v, the Identifiers pushed
    stack,      \* read_identifiers: stack, a sequence of frames
    ipc,        \* read_identifiers: "scanning", "returned", or how it panicked
    walked,     \* main: the entries the walk has yielded so far
    outputs,    \* main: what has been printed, one record for a file parsed
    dpc         \* main: "walking", "done" (Ok(())) or "panicked"

nfaVars == <<nfa, res, ctx>>
dfaVars == <<model, dfa, ctxSrc, ctxDfa, fed, dfa2, ctxDfa2>>
pureVars == <<scans>>
inputVars == <<text, queue, frags>>
fnVars == <<fsm, start, end, functions, fpc, expected>>
idVars == <<ifsm, n1s, n1e, n2s, identifiers, stack, ipc>>
scanVars == <<inputVars, fnVars, idVars>>
driverVars == <<walked, outputs, dpc>>
vars == <<nfa, res, ctx, model, dfa, ctxSrc, ctxDfa, fed, dfa2, ctxDfa2,
          scans, scanVars, driverVars>>

-----------------------------------------------------------------------------
(* Bounds of the model.                                                    *)

MaxNodes == 2
MaxTrans == 2
MaxInput == 2
MaxDecls == 2
MaxFrags == 4
MaxFiles == 3

-----------------------------------------------------------------------------
(* Atoms, transition kinds, transitions.                                   *)

\* type Atom = char: the input symbols the model feeds.
Atom == {"a", "b"}

\* The atoms that label Alpha transitions.
Labels == {"a"}

\* The strings given to Range / NegativeRange / QuerySetRange, as sequences
\* of characters.
RangeStrings == {<<"a">>}

\* The group numbers given to Open / Close.
GroupNums == {1}

\* enum TransitionType; a kind is <<tag>> or <<tag, payload>>.
TransitionType ==
    {<<"Epsilon">>}
    \cup {<<"Alpha", c>> : c \in Labels}
    \cup {<<"Range", s>> : s \in RangeStrings}
    \cup {<<"NegativeRange", s>> : s \in RangeStrings}
    \cup {<<"QuerySetRange", s>> : s \in RangeStrings}
    \cup {<<"Open", n>> : n \in GroupNums}
    \cup {<<"Close", n>> : n \in GroupNums}

\* Transition::new
Transition(kind, dest) == [kind |-> kind, dest |-> dest]

\* String::contains(char)
contains(s, c) == \E i \in 1..Len(s) : s[i] = c

\* Nfa::get: the node a pointer names, if any.
HasNode(a, p) == p \in 0..(Len(a) - 1)
get(a, p) == a[p + 1]

-----------------------------------------------------------------------------
(* The arena's mutators.  Each returns [nfa, ok]: the arena after the call *)
(* and whether the call returned Ok(()).                                   *)

\* Nfa::new_node / Nfa::add_node
new_node(a) == Append(a, <<>>)

\* A slip of add_transition: the new transition is put first, not last.
add_transition_prepend(a, from, t) ==
    IF HasNode(a, from)
    THEN [nfa |-> [a EXCEPT ![from + 1] = <<t>> \o @], ok |-> TRUE]
    ELSE [nfa |-> a, ok |-> FALSE]

\* Nfa::add_transition
add_transition(a, from, t) ==
    IF HasNode(a, from)
    THEN [nfa |-> [a EXCEPT ![from + 1] = Append(@, t)], ok |-> TRUE]
    ELSE [nfa |-> a, ok |-> FALSE]

add_transition_alpha(a, from, to, on) ==
    add_transition(a, from, Transition(<<"Alpha", on>>, to))

add_transition_range(a, from, to, s) ==
    add_transition(a, from, Transition(<<"Range", s>>, to))

add_transition_negativerange(a, from, to, s) ==
    add_transition(a, from, Transition(<<"NegativeRange", s>>, to))

add_transition_queryset(a, from, to, s) ==
    add_transition(a, from, Transition(<<"QuerySetRange", s>>, to))

add_transition_epsilon(a, from, to) ==
    add_transition(a, from, Transition(<<"Epsilon">>, to))

\* Nfa::add_group: the Open edge first; `?` returns its error at once;
\* then the Close edge, on the arena the first call left.
add_group(a, start_from, start_to, end_from, end_to, num) ==
    LET r1 == add_transition(a, start_from, Transition(<<"Open", num>>, start_to))
    IN  IF ~r1.ok
        THEN r1
        ELSE add_transition(r1.nfa, end_from, Transition(<<"Close", num>>, end_to))

\* The pointers a caller may hold: those of the nodes an arena can have,
\* and one more, which is out of range for every arena.
Pointers == 0..MaxNodes

\* The pointers that name a node of a full arena.
Sources == 0..(MaxNodes - 1)

\* The destinations the builder calls of Spec are given.  No mutator reads
\* `to`: it is only stored.  One is in range for every arena with a node,
\* the other out of range for every arena.
Dests == {0, MaxNodes}

NumTrans(a) ==
    LET RECURSIVE Sum(_)
        Sum(i) == IF i = 0 THEN 0 ELSE Len(a[i]) + Sum(i - 1)
    IN  Sum(Len(a))

-----------------------------------------------------------------------------
(* Context: a set of node pointers, stepped over an arena.                 *)

\* A slip of the match: a QuerySetRange is stepped like a Range.
Matches_queryset(k, input) ==
    CASE k[1] = "Alpha" -> k[2] = input
      [] k[1] = "Range" -> contains(k[2], input)
      [] k[1] = "QuerySetRange" -> contains(k[2], input)
      [] k[1] = "NegativeRange" -> ~contains(k[2], input)
      [] OTHER -> FALSE

\* The match arms of Context::step: whether transition kind k consumes
\* `input`.  Every kind but Alpha, Range and NegativeRange falls to `_`.
Matches(k, input) ==
    CASE k[1] = "Alpha" -> k[2] = input
      [] k[1] = "Range" -> contains(k[2], input)
      [] k[1] = "NegativeRange" -> ~contains(k[2], input)
      [] OTHER -> FALSE

\* A slip of the loop body: every transition is followed, whatever its kind.
EpsilonPass_anykind(nodes, a) ==
    nodes \cup {d \in Pointers :
                  \E p \in nodes :
                      /\ HasNode(a, p)
                      /\ \E i \in 1..Len(get(a, p)) : get(a, p)[i].dest = d}

\* One pass of the loop body of Context::add_epsilons over `prev`: the
\* nodes with the destination of every Epsilon transition of a node of
\* `prev` that the arena holds inserted.
EpsilonPass(nodes, a) ==
    nodes \cup {d \in Pointers :
                  \E p \in nodes :
                      /\ HasNode(a, p)
                      /\ \E i \in 1..Len(get(a, p)) :
                            /\ get(a, p)[i].kind[1] = "Epsilon"
                            /\ get(a, p)[i].dest = d}

\* The loop of Context::add_epsilons, with the passes counted: pass after
\* pass until one leaves the size of the set as it was.
RECURSIVE add_epsilons_loop(_, _, _)
add_epsilons_loop(nodes, a, passes) ==
    LET size == Cardinality(nodes)
        next == EpsilonPass(nodes, a)
    IN  IF size = Cardinality(next)
        THEN [nodes |-> next, passes |-> passes + 1]
        ELSE add_epsilons_loop(next, a, passes + 1)

\* A slip of the loop: it returns after its first pass.
add_epsilons_onepass(nodes, a) == EpsilonPass(nodes, a)

\* Context::add_epsilons
add_epsilons(nodes, a) == add_epsilons_loop(nodes, a, 0).nodes

\* Context::step
step(nodes, a, input) ==
    LET hit == {d \in Pointers :
                  \E p \in nodes :
                      /\ HasNode(a, p)
                      /\ \E i \in 1..Len(get(a, p)) :
                            /\ Matches(get(a, p)[i].kind, input)
                            /\ get(a, p)[i].dest = d}
    IN  add_epsilons(hit, a)

-----------------------------------------------------------------------------
(* NfaModel::to_dfa.                                                       *)

\* NfaModel::new
NfaModel(a, start0, end0) == [nfa |-> a, start |-> start0, end |-> end0]

\* ctx.nodes.into_iter().collect(): the elements of a HashSet in the order
\* its iterator yields them.  The order of a set of two or more is not
\* specified; every set to_dfa collects is the closure of one pointer over
\* the new arena, which never holds an Epsilon transition, so it has one
\* element and one order.
SetToVec(S) ==
    CHOOSE v \in [1..Cardinality(S) -> S] : \A e \in S : \E i \in DOMAIN v : v[i] = e

\* The value `e?` returns early: Err, with its message.
Failed(st, why) == [st EXCEPT !.ok = FALSE, !.err = why]

\* A slip of the insert: the set is not recorded.
map_insert_forgotten(map, k, v) == map

\* map.insert(k, v)
map_insert(map, k, v) == (k :> v) @@ map

\* The body of `for new in &...transitions`, from the i-th transition of ts
\* on.  st holds dfa_model.nfa, map and stack, and `pushed`, every vector
\* pushed so far in order, and `pops`, the iterations of the while loop.
RECURSIVE ForNew(_, _, _, _)
ForNew(st, my_p, ts, i) ==
    IF i > Len(ts) THEN st
    ELSE IF ts[i].kind[1] = "Epsilon" THEN ForNew(st, my_p, ts, i + 1)
    ELSE
        LET super_state == SetToVec(add_epsilons({ts[i].dest}, st.nfa))
            seen == super_state \in DOMAIN st.map
            y == Len(st.nfa)
            d == IF seen THEN st.map[super_state] ELSE y
            grown == IF seen THEN st.nfa ELSE new_node(st.nfa)
            r == add_transition(grown, my_p, Transition(ts[i].kind, d))
        IN  IF ~r.ok THEN Failed(st, "Invalid source!")
            ELSE ForNew([st EXCEPT
                            !.nfa = r.nfa,
                            !.map = IF seen THEN @ ELSE map_insert(@, super_state, y),
                            !.stack = IF seen THEN @ ELSE Append(@, super_state),
                            !.pushed = IF seen THEN @ ELSE Append(@, super_state)],
                        my_p, ts, i + 1)

\* A slip of the inner loop: the first transition of a node is not visited.
RECURSIVE ForOld_skipfirst(_, _, _, _, _)
ForOld_skipfirst(st, self, my_p, x, j) ==
    IF j > Len(x) THEN st
    ELSE IF ~HasNode(self.nfa, x[j]) THEN Failed(st, "ahh")
    ELSE
        LET st1 == ForNew(st, my_p, get(self.nfa, x[j]), 2)
        IN  IF ~st1.ok THEN st1 ELSE ForOld_skipfirst(st1, self, my_p, x, j + 1)

\* The body of `for old in &x`, from the j-th element of x on.  The node
\* of `old` is looked up in self.nfa, the arena to_dfa was called on.
RECURSIVE ForOld(_, _, _, _, _)
ForOld(st, self, my_p, x, j) ==
    IF j > Len(x) THEN st
    ELSE IF ~HasNode(self.nfa, x[j]) THEN Failed(st, "ahh")
    ELSE
        LET st1 == ForNew(st, my_p, get(self.nfa, x[j]), 1)
        IN  IF ~st1.ok THEN st1 ELSE ForOld(st1, self, my_p, x, j + 1)

\* while !stack.is_empty()
RECURSIVE WhileStack(_, _)
WhileStack(st, self) ==
    IF st.stack = <<>> THEN st
    ELSE
        LET x == st.stack[Len(st.stack)]
            popped == [st EXCEPT !.stack = SubSeq(@, 1, Len(@) - 1),
                                 !.pops = @ + 1]
        IN  IF x \notin DOMAIN st.map THEN Failed(popped, "how?")
            ELSE
                LET st1 == ForOld(popped, self, st.map[x], x, 1)
                IN  IF ~st1.ok THEN st1 ELSE WhileStack(st1, self)

\* NfaModel::to_dfa.  The result is [ok, nfa, start, end], ok being whether
\* it is Ok(dfa_model) and err the message of the Err, with the map, the
\* stack, the vectors pushed and the number of iterations of the loop.
to_dfa(self) ==
    LET dfa0 == new_node(new_node(<<>>))
        start0 == 0
        end0 == 1
        x == SetToVec(add_epsilons({start0}, dfa0))
        st == WhileStack([ok |-> TRUE, err |-> "", nfa |-> dfa0,
                          map |-> map_insert(<<>>, x, start0),
                          stack |-> <<x>>, pushed |-> <<x>>, pops |-> 0], self)
    IN  [ok |-> st.ok, err |-> st.err, nfa |-> st.nfa,
         start |-> start0, end |-> end0,
         map |-> st.map, stack |-> st.stack, pushed |-> st.pushed,
         pops |-> st.pops]

-----------------------------------------------------------------------------
(* Source text.  A text is a sequence of characters; a character is a      *)
(* one-character string, but for "U", which stands for an alphabetic       *)
(* character that UTF-8 encodes in two bytes, such as U+00E9.              *)

\* char::is_alphabetic, char::is_numeric, char::is_alphanumeric,
\* char::is_whitespace, on the characters the model feeds.
Letters == {"a", "b", "c", "d", "e", "f", "g", "i", "k", "l", "m", "n", "o",
            "p", "r", "s", "t", "u", "v", "x", "U"}
Digits == {"1"}
is_alphabetic(c) == c \in Letters
is_alphanumeric(c) == c \in Letters \cup Digits
is_whitespace(c) == c = " "

\* char::len_utf8
len_utf8(c) == IF c = "U" THEN 2 ELSE 1

\* The byte offset of the character with index k (from 0) of t, which
\* text.chars().enumerate() counts as k.
RECURSIVE ByteOffset(_, _)
ByteOffset(t, k) == IF k = 0 THEN 0 ELSE ByteOffset(t, k - 1) + len_utf8(t[k])

\* text[lo..hi]: a str is sliced by byte offsets, and the slice panics
\* (ok = FALSE) when lo > hi, when hi is past the end, or when a bound is
\* not on a character boundary.  t is the text read so far; no bound the
\* scanners slice with is past it.
Slice(t, lo, hi) ==
    LET bounds == {k \in 0..Len(t) : ByteOffset(t, k) \in {lo, hi}}
        klo == {k \in bounds : ByteOffset(t, k) = lo}
        khi == {k \in bounds : ByteOffset(t, k) = hi}
    IN  IF lo > hi \/ klo = {} \/ khi = {}
        THEN [ok |-> FALSE, str |-> <<>>]
        ELSE [ok |-> TRUE,
              str |-> SubSeq(t, (CHOOSE k \in klo : TRUE) + 1, CHOOSE k \in khi : TRUE)]

-----------------------------------------------------------------------------
(* Clike::read_functions: the body of its loop over text.chars().          *)

\* A slip of the PARENS arm: a `{` is taken at any depth.
FunctionsStep_anydepth(t, i, c, s, st, en, v) ==
    LET same == [fsm |-> s, start |-> st, end |-> en, functions |-> v, ok |-> TRUE]
    IN  CASE s = <<"NONE">> ->
                IF is_alphanumeric(c)
                THEN [same EXCEPT !.fsm = <<"NAME">>, !.start = i]
                ELSE same
          [] s = <<"NAME">> ->
                IF c = "(" THEN [same EXCEPT !.fsm = <<"PARENS", 1>>, !.end = i]
                ELSE IF ~is_alphanumeric(c) THEN [same EXCEPT !.fsm = <<"NONE">>]
                ELSE same
          [] s[1] = "PARENS" ->
                IF c = "(" THEN [same EXCEPT !.fsm = <<"PARENS", s[2] + 1>>]
                ELSE IF c = ")" THEN [same EXCEPT !.fsm = <<"PARENS", s[2] - 1>>]
                ELSE IF is_whitespace(c) /\ s[2] = 0 THEN [same EXCEPT !.fsm = <<"SPACE">>]
                ELSE IF c = "{" THEN [same EXCEPT !.fsm = <<"BRACE">>]
                ELSE same
          [] s = <<"SPACE">> ->
                IF is_alphanumeric(c)
                THEN [same EXCEPT !.fsm = <<"NAME">>, !.start = i]
                ELSE IF c = "{" THEN [same EXCEPT !.fsm = <<"BRACE">>]
                ELSE IF ~is_whitespace(c) THEN [same EXCEPT !.fsm = <<"NONE">>]
                ELSE same
          [] s = <<"BRACE">> ->
                LET name == Slice(t, st, en)
                IN  IF name.ok
                    THEN [same EXCEPT !.functions = Append(v, name.str),
                                      !.fsm = <<"NONE">>]
                    ELSE [same EXCEPT !.ok = FALSE]

\* The match on s for character c with index i; t is the text up to and
\* including c.  The result gives s, start, end and v after the iteration,
\* and whether the iteration panicked.
FunctionsStep(t, i, c, s, st, en, v) ==
    LET same == [fsm |-> s, start |-> st, end |-> en, functions |-> v, ok |-> TRUE]
    IN  CASE s = <<"NONE">> ->
                IF is_alphanumeric(c)
                THEN [same EXCEPT !.fsm = <<"NAME">>, !.start = i]
                ELSE same
          [] s = <<"NAME">> ->
                IF c = "(" THEN [same EXCEPT !.fsm = <<"PARENS", 1>>, !.end = i]
                ELSE IF ~is_alphanumeric(c) THEN [same EXCEPT !.fsm = <<"NONE">>]
                ELSE same
          [] s[1] = "PARENS" ->
                IF c = "(" THEN [same EXCEPT !.fsm = <<"PARENS", s[2] + 1>>]
                ELSE IF c = ")" THEN [same EXCEPT !.fsm = <<"PARENS", s[2] - 1>>]
                ELSE IF is_whitespace(c) /\ s[2] = 0 THEN [same EXCEPT !.fsm = <<"SPACE">>]
                ELSE IF c = "{" /\ s[2] = 0 THEN [same EXCEPT !.fsm = <<"BRACE">>]
                ELSE same
          [] s = <<"SPACE">> ->
                IF is_alphanumeric(c)
                THEN [same EXCEPT !.fsm = <<"NAME">>, !.start = i]
                ELSE IF c = "{" THEN [same EXCEPT !.fsm = <<"BRACE">>]
                ELSE IF ~is_whitespace(c) THEN [same EXCEPT !.fsm = <<"NONE">>]
                ELSE same
          [] s = <<"BRACE">> ->
                LET name == Slice(t, st, en)
                IN  IF name.ok
                    THEN [same EXCEPT !.functions = Append(v, name.str),
                                      !.fsm = <<"NONE">>]
                    ELSE [same EXCEPT !.ok = FALSE]

-----------------------------------------------------------------------------
(* Clike::read_identifiers: the body of its loop over text.chars().        *)
(* A frame, a HashMap<String, String>, is a set of <<name, type>> pairs    *)
(* with at most one pair for a name.                                       *)

Keywords ==
    { <<"p", "u", "b", "l", "i", "c">>,
      <<"p", "a", "c", "k", "a", "g", "e">>,
      <<"p", "r", "i", "v", "a", "t", "e">>,
      <<"p", "r", "o", "t", "e", "c", "t", "e", "d">>,
      <<"i", "m", "p", "o", "r", "t">>,
      <<"v", "o", "i", "d">>,
      <<"t", "r", "u", "e">>,
      <<"f", "a", "l", "s", "e">>,
      <<"e", "x", "t", "e", "n", "d", "s">> }

is_allowed(x) == x \notin Keywords

\* HashMap::insert
insert(frame, name, typ) == {b \in frame : b[1] # name} \cup {<<name, typ>>}

\* A slip of the pop: the bindings of the frame popped go to the one below.
pop_merge(stk) ==
    IF Len(stk) < 2 THEN <<>>
    ELSE [SubSeq(stk, 1, Len(stk) - 1) EXCEPT ![Len(stk) - 1] =
             {b \in @ : \A d \in stk[Len(stk)] : d[1] # b[1]} \cup stk[Len(stk)]]

\* Vec::pop, its result dropped: nothing happens to an empty Vec.
pop(stk) == IF stk = <<>> THEN <<>> ELSE SubSeq(stk, 1, Len(stk) - 1)

\* for frame in stack.iter().rev() { if let Some(typ) = frame.get(&name)
\* { ...; break; } }: the types found, none or the innermost frame's.
RECURSIVE Lookup(_, _, _)
Lookup(stk, k, name) ==
    IF k = 0 THEN {}
    ELSE LET found == {b[2] : b \in {d \in stk[k] : d[1] = name}}
         IN  IF found # {} THEN found ELSE Lookup(stk, k - 1, name)

Identifier(name, typ, from, to) ==
    [name |-> name, typ |-> typ, start |-> from, end |-> to]

\* The pushes of the use of text[s1..e1], if it is bound in a frame.
PushUse(t, s1, e1, v, stk) ==
    LET name == Slice(t, s1, e1)
        typs == Lookup(stk, Len(stk), name.str)
    IN  IF ~name.ok THEN [identifiers |-> v, panic |-> "slice"]
        ELSE IF typs = {} THEN [identifiers |-> v, panic |-> ""]
        ELSE [identifiers |-> Append(v, Identifier(name.str, CHOOSE y \in typs : TRUE, s1, e1)),
              panic |-> ""]

\* The `if c == '{' ... else if c == '}'` before the match.
Braces(c, s, stk) ==
    IF c = "{" THEN [ifsm |-> "NONE", stack |-> Append(stk, {})]
    ELSE IF c = "}" THEN [ifsm |-> "NONE", stack |-> pop(stk)]
    ELSE [ifsm |-> s, stack |-> stk]

\* One iteration, for character c with index i; t is the text up to and
\* including c.  panic is "" when the iteration ends normally.
IdentifiersStep(t, i, c, s0, s1, e1, s2, v, stk0) ==
    LET b == Braces(c, s0, stk0)
        s == b.ifsm
        stk == b.stack
        same == [ifsm |-> s, n1s |-> s1, n1e |-> e1, n2s |-> s2,
                 identifiers |-> v, stack |-> stk, panic |-> ""]
        afterName == IF c = "." THEN "DOT" ELSE "NONE"
    IN  CASE s = "NONE" ->
                IF c = "." THEN [same EXCEPT !.ifsm = "DOT"]
                ELSE IF is_alphabetic(c) THEN [same EXCEPT !.ifsm = "NAME1", !.n1s = i]
                ELSE same
          [] s = "DOT" ->
                IF is_whitespace(c) THEN [same EXCEPT !.ifsm = "SPACE"] ELSE same
          [] s = "NAME1" ->
                IF is_whitespace(c) THEN [same EXCEPT !.ifsm = "SPACE", !.n1e = i]
                ELSE IF ~is_alphanumeric(c)
                THEN LET r == PushUse(t, s1, i, v, stk)
                     IN  [same EXCEPT !.ifsm = afterName, !.n1e = i,
                                      !.identifiers = r.identifiers,
                                      !.panic = r.panic]
                ELSE same
          [] s = "SPACE" ->
                IF is_alphabetic(c) THEN [same EXCEPT !.ifsm = "NAME2", !.n2s = i]
                ELSE IF ~is_whitespace(c)
                THEN LET r == PushUse(t, s1, e1, v, stk)
                     IN  [same EXCEPT !.ifsm = "NONE",
                                      !.identifiers = r.identifiers,
                                      !.panic = r.panic]
                ELSE same
          [] s = "NAME2" ->
                IF ~is_alphanumeric(c)
                THEN LET name == Slice(t, s2, i)
                         typ == Slice(t, s1, e1)
                     IN  IF ~name.ok \/ ~typ.ok
                         THEN [same EXCEPT !.ifsm = afterName, !.panic = "slice"]
                         ELSE IF is_allowed(name.str) /\ is_allowed(typ.str)
                         THEN IF stk = <<>>
                              THEN [same EXCEPT !.ifsm = afterName,
                                       !.identifiers =
                                           Append(v, Identifier(name.str, typ.str, s2, i)),
                                       !.panic = "unwrap"]
                              ELSE [same EXCEPT !.ifsm = afterName,
                                       !.identifiers =
                                           Append(v, Identifier(name.str, typ.str, s2, i)),
                                       !.stack = [stk EXCEPT ![Len(stk)] =
                                                     insert(@, name.str, typ.str)]]
                         ELSE [same EXCEPT !.ifsm = afterName]
                ELSE same

-----------------------------------------------------------------------------
(* The scanners run over a whole text, as main calls them.                 *)

\* The loop of read_functions from the character with index i on.
RECURSIVE FunctionsLoop(_, _, _, _, _, _)
FunctionsLoop(t, i, s, st, en, v) ==
    IF i = Len(t) THEN [ok |-> TRUE, functions |-> v]
    ELSE LET r == FunctionsStep(SubSeq(t, 1, i + 1), i, t[i + 1], s, st, en, v)
         IN  IF ~r.ok THEN [ok |-> FALSE, functions |-> <<>>]
             ELSE FunctionsLoop(t, i + 1, r.fsm, r.start, r.end, r.functions)

\* Clike::read_functions; ok is FALSE when it panics.
read_functions(t) == FunctionsLoop(t, 0, <<"NONE">>, 0, 0, <<>>)

\* The loop of read_identifiers from the character with index i on.
RECURSIVE IdentifiersLoop(_, _, _, _, _, _, _, _)
IdentifiersLoop(t, i, s, s1, e1, s2, v, stk) ==
    IF i = Len(t) THEN [ok |-> TRUE, identifiers |-> v]
    ELSE LET r == IdentifiersStep(SubSeq(t, 1, i + 1), i, t[i + 1],
                                  s, s1, e1, s2, v, stk)
         IN  IF r.panic # "" THEN [ok |-> FALSE, identifiers |-> <<>>]
             ELSE IdentifiersLoop(t, i + 1, r.ifsm, r.n1s, r.n1e, r.n2s,
                                  r.identifiers, r.stack)

\* Clike::read_identifiers; ok is FALSE when it panics.
read_identifiers(t) == IdentifiersLoop(t, 0, "NONE", 0, 0, 0, <<>>, <<{}>>)

-----------------------------------------------------------------------------
(* Builder actions: one per public mutator of Nfa.                         *)

NoResult == [ok |-> FALSE, none |-> TRUE]

\* The scans that walk one arena side by side, each with Contexts of its
\* own; a scan that has not begun has made no Context.
Scans == {"x", "y"}
NoScan == [sets |-> <<>>, fed |-> <<>>]

\* No text has been read.
InputIdle ==
    /\ text = <<>>
    /\ queue = <<>>
    /\ frags = 0

\* read_identifiers before its loop: the stack holds one empty frame.
IdIdle ==
    /\ ifsm = "NONE"
    /\ n1s = 0
    /\ n1e = 0
    /\ n2s = 0
    /\ identifiers = <<>>
    /\ stack = <<{}>>
    /\ ipc = "scanning"

\* main before the walk yields its first entry.
DriverIdle ==
    /\ walked = <<>>
    /\ outputs = <<>>
    /\ dpc = "walking"

\* read_functions before its loop.
FnIdle ==
    /\ fsm = <<"NONE">>
    /\ start = 0
    /\ end = 0
    /\ functions = <<>>
    /\ fpc = "scanning"
    /\ expected = <<>>

DfaIdle ==
    /\ model = NoResult
    /\ dfa = NoResult
    /\ ctxSrc = {}
    /\ ctxDfa = {}
    /\ fed = <<>>
    /\ dfa2 = NoResult
    /\ ctxDfa2 = {}

Called(r) ==
    /\ NumTrans(r.nfa) <= MaxTrans
    /\ res' = (IF r.ok THEN "ok" ELSE "err")
    /\ nfa' = r.nfa
    /\ UNCHANGED <<ctx, dfaVars, scanVars, pureVars, driverVars>>

NewNode ==
    /\ Len(nfa) < MaxNodes
    /\ nfa' = new_node(nfa)
    /\ res' = "ok"
    /\ UNCHANGED <<ctx, dfaVars, scanVars, pureVars, driverVars>>

AddTransitionAlpha(from, to, on) ==
    Called(add_transition_alpha(nfa, from, to, on))

AddTransitionRange(from, to, s) ==
    Called(add_transition_range(nfa, from, to, s))

AddTransitionNegativeRange(from, to, s) ==
    Called(add_transition_negativerange(nfa, from, to, s))

AddTransitionQueryset(from, to, s) ==
    Called(add_transition_queryset(nfa, from, to, s))

AddTransitionEpsilon(from, to) ==
    Called(add_transition_epsilon(nfa, from, to))

AddGroup(sf, st, ef, et, num) ==
    Called(add_group(nfa, sf, st, ef, et, num))

NfaIdle ==
    /\ nfa = <<>>
    /\ res = "none"
    /\ ctx = {}
    /\ scans = [k \in Scans |-> NoScan]

Init ==
    /\ NfaIdle
    /\ DfaIdle
    /\ InputIdle
    /\ FnIdle
    /\ IdIdle
    /\ DriverIdle

Next ==
    \/ NewNode
    \/ \E from \in Pointers, to \in Dests, on \in Labels :
            AddTransitionAlpha(from, to, on)
    \/ \E from \in Pointers, to \in Dests, s \in RangeStrings :
            AddTransitionRange(from, to, s)
    \/ \E from \in Pointers, to \in Dests, s \in RangeStrings :
            AddTransitionNegativeRange(from, to, s)
    \/ \E from \in Pointers, to \in Dests, s \in RangeStrings :
            AddTransitionQueryset(from, to, s)
    \/ \E from \in Pointers, to \in Dests :
            AddTransitionEpsilon(from, to)
    \/ \E sf \in Pointers, st \in Dests, ef \in Pointers, et \in Dests,
          num \in GroupNums :
            AddGroup(sf, st, ef, et, num)

Spec == Init /\ [][Next]_vars

-----------------------------------------------------------------------------
(* Simulation over the arena being built: Context::new, Context::step and  *)
(* Context::add_epsilons, as the tests of mod.rs call them between builder *)
(* calls.                                                                  *)

\* Context::new
ContextNew(nodes) ==
    /\ ctx' = nodes
    /\ res' = "new"
    /\ UNCHANGED <<nfa, dfaVars, scanVars, pureVars, driverVars>>

\* ctx = ctx.step(&nfa, input)
Step(input) ==
    /\ ctx' = step(ctx, nfa, input)
    /\ res' = "step"
    /\ UNCHANGED <<nfa, dfaVars, scanVars, pureVars, driverVars>>

\* ctx = Context::add_epsilons(ctx.nodes, &nfa)
AddEpsilons ==
    /\ ctx' = add_epsilons(ctx, nfa)
    /\ res' = "closure"
    /\ UNCHANGED <<nfa, dfaVars, scanVars, pureVars, driverVars>>

SimNext ==
    \/ NewNode
    \/ \E from \in Sources, to \in Pointers, on \in Labels :
            AddTransitionAlpha(from, to, on)
    \/ \E from \in Sources, to \in Pointers, s \in RangeStrings :
            AddTransitionRange(from, to, s)
    \/ \E from \in Sources, to \in Pointers, s \in RangeStrings :
            AddTransitionNegativeRange(from, to, s)
    \/ \E from \in Sources, to \in Pointers, s \in RangeStrings :
            AddTransitionQueryset(from, to, s)
    \/ \E from \in Sources, to \in Pointers :
            AddTransitionEpsilon(from, to)
    \/ \E sf \in Sources, st \in Pointers, ef \in Sources, et \in Pointers,
          num \in GroupNums :
            AddGroup(sf, st, ef, et, num)
    \/ \E nodes \in SUBSET Pointers : ContextNew(nodes)
    \/ \E input \in Atom : Step(input)
    \/ AddEpsilons

SpecSim == Init /\ [][SimNext]_vars

\* The same, over arenas of Alpha and Epsilon transitions only.
ClosureNext ==
    \/ NewNode
    \/ \E from \in Sources, to \in Pointers, on \in Labels :
            AddTransitionAlpha(from, to, on)
    \/ \E from \in Sources, to \in Pointers :
            AddTransitionEpsilon(from, to)
    \/ \E nodes \in SUBSET Pointers : ContextNew(nodes)
    \/ \E input \in Atom : Step(input)
    \/ AddEpsilons

SpecClosure == Init /\ [][ClosureNext]_vars

-----------------------------------------------------------------------------
(* Several scans over one arena: each holds its own Contexts and steps     *)
(* them while the others do the same.  Context::step takes &self and &Nfa  *)
(* and returns a new Context, which the scan keeps beside the old ones.    *)

\* The arena is built before the first scan begins.
NoScans == \A k \in Scans : scans[k] = NoScan

\* How many symbols the scans have stepped on, all together.
RECURSIVE Stepped(_)
Stepped(K) ==
    IF K = {} THEN 0
    ELSE LET k == CHOOSE j \in K : TRUE
         IN  Len(scans[k].fed) + Stepped(K \ {k})

\* let c = Context::new(vec![p].into_iter().collect()), for scan k; every
\* scan begins at the first node of the arena, as a match begins at the
\* start of the pattern
ScanNew(k, p) ==
    /\ scans[k] = NoScan
    /\ HasNode(nfa, p)
    /\ scans' = [scans EXCEPT ![k] = [sets |-> <<{p}>>, fed |-> <<>>]]
    /\ UNCHANGED <<nfaVars, dfaVars, scanVars, driverVars>>

\* A slip of the step: the Contexts of the other scans are stepped too.
ScanStep_shared(k, input) ==
    /\ scans[k] # NoScan
    /\ Stepped(Scans) < MaxInput
    /\ scans' = [j \in Scans |->
                    IF scans[j] = NoScan THEN NoScan
                    ELSE IF j = k
                    THEN [sets |-> Append(scans[j].sets,
                                     step(scans[j].sets[Len(scans[j].sets)], nfa, input)),
                          fed |-> Append(scans[j].fed, input)]
                    ELSE [scans[j] EXCEPT !.sets[Len(scans[j].sets)] =
                                     step(@, nfa, input)]]
    /\ UNCHANGED <<nfaVars, dfaVars, scanVars, driverVars>>

\* let next = last.step(&nfa, input), for scan k, `last` being the Context
\* it made last
ScanStep(k, input) ==
    /\ scans[k] # NoScan
    /\ Stepped(Scans) < MaxInput
    /\ scans' = [scans EXCEPT ![k] =
                    [sets |-> Append(@.sets, step(@.sets[Len(@.sets)], nfa, input)),
                     fed |-> Append(@.fed, input)]]
    /\ UNCHANGED <<nfaVars, dfaVars, scanVars, driverVars>>

ScansNext ==
    \/ NoScans /\ NewNode
    \/ \E from \in Sources, to \in Pointers, on \in Labels :
            NoScans /\ AddTransitionAlpha(from, to, on)
    \/ \E from \in Sources, to \in Pointers :
            NoScans /\ AddTransitionEpsilon(from, to)
    \/ \E k \in Scans : ScanNew(k, 0)
    \/ \E k \in Scans, input \in Atom : ScanStep(k, input)

SpecScans == Init /\ [][ScansNext]_vars

-----------------------------------------------------------------------------------------------------------------------------------------------------
(* A pattern is built, compiled with to_dfa, and both forms are walked     *)
(* over the same input.                                                    *)

\* NfaModel::new(nfa, start, end): the arena moves into the model.
NewModel(start0, end0) ==
    /\ model = NoResult
    /\ HasNode(nfa, start0)
    /\ HasNode(nfa, end0)
    /\ model' = NfaModel(nfa, start0, end0)
    /\ UNCHANGED <<nfaVars, dfa, ctxSrc, ctxDfa, fed, dfa2, ctxDfa2, scanVars, pureVars, driverVars>>

\* model.to_dfa() and, when it succeeds, to_dfa() on its result; a context
\* is put on the start of each form.
ToDfa ==
    /\ model # NoResult
    /\ dfa = NoResult
    /\ dfa' = to_dfa(model)
    /\ ctxSrc' = add_epsilons({model.start}, model.nfa)
    /\ ctxDfa' = IF dfa'.ok THEN add_epsilons({dfa'.start}, dfa'.nfa) ELSE {}
    /\ dfa2' = IF dfa'.ok
               THEN to_dfa(NfaModel(dfa'.nfa, dfa'.start, dfa'.end))
               ELSE NoResult
    /\ ctxDfa2' = IF dfa2'.ok THEN add_epsilons({dfa2'.start}, dfa2'.nfa) ELSE {}
    /\ UNCHANGED <<nfaVars, model, fed, scanVars, pureVars, driverVars>>

\* Both contexts step over the next input symbol.
Feed(input) ==
    /\ dfa # NoResult
    /\ dfa.ok
    /\ Len(fed) < MaxInput
    /\ fed' = Append(fed, input)
    /\ ctxSrc' = step(ctxSrc, model.nfa, input)
    /\ ctxDfa' = step(ctxDfa, dfa.nfa, input)
    /\ ctxDfa2' = IF dfa2 # NoResult /\ dfa2.ok
                  THEN step(ctxDfa2, dfa2.nfa, input)
                  ELSE ctxDfa2
    /\ UNCHANGED <<nfaVars, model, dfa, dfa2, scanVars, pureVars, driverVars>>

Building == model = NoResult

DfaNext ==
    \/ Building /\ NewNode
    \/ \E from \in Sources, to \in Pointers, on \in Labels :
            Building /\ AddTransitionAlpha(from, to, on)
    \/ \E from \in Sources, to \in Pointers, s \in RangeStrings :
            Building /\ AddTransitionRange(from, to, s)
    \/ \E from \in Sources, to \in Pointers :
            Building /\ AddTransitionEpsilon(from, to)
    \/ \E start0 \in Sources, end0 \in Sources : NewModel(start0, end0)
    \/ ToDfa
    \/ \E input \in Atom : Feed(input)

SpecDfa == Init /\ [][DfaNext]_vars

-----------------------------------------------------------------------------
(* C1, C2.                                                                 *)

\* A CompiledPattern as the claims take it: start and accepting node are
\* nodes of the arena, and so is every destination.
WellFormed(m) ==
    /\ HasNode(m.nfa, m.start)
    /\ HasNode(m.nfa, m.end)
    /\ \A n \in 1..Len(m.nfa) : \A i \in 1..Len(m.nfa[n]) :
          HasNode(m.nfa, m.nfa[n][i].dest)

Compiled == model # NoResult /\ dfa # NoResult

\* C1: to_dfa returns a pattern equivalent to its input: after every input
\* string, the returned pattern, walked from the epsilon-closure of its
\* start, is at its accepting node if and only if the original pattern,
\* walked from the epsilon-closure of its start, is at its accepting node.
C1_DfaEquivalent ==
    (Compiled /\ WellFormed(model)) =>
        /\ dfa.ok
        /\ (dfa.end \in ctxDfa) <=> (model.end \in ctxSrc)

\* C2: the pattern to_dfa returns is deterministic: walked from its start,
\* it has at most one active node after every step.
C2_DfaDeterministic ==
    (Compiled /\ WellFormed(model) /\ dfa.ok) => Cardinality(ctxDfa) <= 1

\* C11: to_dfa applied twice is stable: when to_dfa succeeds on a pattern,
\* it succeeds on its result, and after every input the walk of
\* to_dfa(to_dfa(m)) from its start has as many active nodes as the walk of
\* to_dfa(m) from its start.
C11_TwiceIsStable ==
    dfa2 # NoResult =>
        /\ dfa2.ok
        /\ Cardinality(ctxDfa2) = Cardinality(ctxDfa)

\* Both compiled forms were walked over an input that left active nodes,
\* from a pattern whose compiled form has a node besides start and end.
C11_Witness ==
    /\ dfa2 # NoResult
    /\ dfa2.ok
    /\ Len(dfa.nfa) > 2
    /\ fed # <<>>
    /\ ctxDfa2 # {}

\* The elements of a vector.
Elements(v) == {v[i] : i \in 1..Len(v)}

\* C14: to_dfa terminates, after one iteration of its loop for each set
\* pushed, and no more sets are pushed than there are node pointers and the
\* start; no node-set is pushed twice; every set pushed is a key of the
\* map; the lookup of a popped set never fails.
C14_NoSetPushedTwice ==
    dfa # NoResult =>
        /\ dfa.err # "how?"
        /\ \A i, j \in 1..Len(dfa.pushed) :
              Elements(dfa.pushed[i]) = Elements(dfa.pushed[j]) => i = j
        /\ \A i \in 1..Len(dfa.pushed) : dfa.pushed[i] \in DOMAIN dfa.map
        /\ Len(dfa.pushed) <= Cardinality(Pointers) + 1
        /\ dfa.pops <= Len(dfa.pushed)
        /\ dfa.ok => dfa.stack = <<>> /\ dfa.pops = Len(dfa.pushed)

\* to_dfa succeeded on a pattern with a cycle and an Epsilon transition:
\* it met a set it had pushed before and reused its node.
C14_Witness ==
    /\ dfa # NoResult
    /\ dfa.ok
    /\ NumTrans(dfa.nfa) >= Len(dfa.pushed)
    /\ \E n \in 1..Len(model.nfa) : \E i \in 1..Len(model.nfa[n]) :
          model.nfa[n][i].kind = <<"Epsilon">>

-----------------------------------------------------------------------------
(* read_functions over a text that is a sequence of function declarations. *)

\* The parts of a declaration: return type, name, parameter list, body.
TypeTokens == {<<"a">>, <<"U">>}
NameTokens == {<<"a">>, <<"a", "1">>, <<"U">>}
ParamLists == {<<"(", ")">>, <<"(", "a", " ", "(", "a", ")", ")">>}
Bodies == {<<>>, <<"a">>, <<" ", "U", ";">>}

\* return type, whitespace, name, parameter list, whitespace, `{`, body, `}`
Declaration(typ, name, params, body) ==
    typ \o <<" ">> \o name \o params \o <<" ", "{">> \o body \o <<"}">>

\* One iteration of the loop, on character c.
ReadFunctionsChar(c) ==
    LET t == Append(text, c)
        r == FunctionsStep(t, Len(text), c, fsm, start, end, functions)
    IN  /\ text' = t
        /\ fsm' = r.fsm
        /\ start' = r.start
        /\ end' = r.end
        /\ functions' = r.functions
        /\ fpc' = IF r.ok THEN "scanning" ELSE "panicked"

\* The text goes on with a declaration; its first character is read.
ReadDeclaration(typ, name, params, body) ==
    /\ fpc = "scanning"
    /\ queue = <<>>
    /\ frags < MaxDecls
    /\ frags' = frags + 1
    /\ expected' = Append(expected, name)
    /\ queue' = Tail(Declaration(typ, name, params, body))
    /\ ReadFunctionsChar(Head(Declaration(typ, name, params, body)))
    /\ UNCHANGED <<nfaVars, dfaVars, pureVars, driverVars, idVars>>

\* The next character of the text is read.
ReadFunctionsNext ==
    /\ fpc = "scanning"
    /\ queue # <<>>
    /\ queue' = Tail(queue)
    /\ ReadFunctionsChar(Head(queue))
    /\ UNCHANGED <<nfaVars, dfaVars, pureVars, driverVars, idVars, frags, expected>>

\* The text is at its end: read_functions returns v.
ReadFunctionsReturn ==
    /\ fpc = "scanning"
    /\ queue = <<>>
    /\ fpc' = "returned"
    /\ UNCHANGED <<nfaVars, dfaVars, pureVars, driverVars, idVars, inputVars, fsm, start, end,
                   functions, expected>>

DeclsNext ==
    \/ \E typ \in TypeTokens, name \in NameTokens, params \in ParamLists,
          body \in Bodies :
            ReadDeclaration(typ, name, params, body)
    \/ ReadFunctionsNext
    \/ ReadFunctionsReturn

SpecDecls == Init /\ [][DeclsNext]_vars

\* C6: for a text that is a sequence of n function declarations,
\* read_functions returns exactly n records, in source order, the i-th
\* named as the i-th declaration is.
C6_OneRecordPerDeclaration ==
    /\ fpc # "panicked"
    /\ fpc = "returned" => functions = expected

-----------------------------------------------------------------------------
(* read_functions over a text that is any sequence of fragments.           *)

FunctionFragments ==
    { <<"a", "(">>, <<"(">>, <<")">>, <<" ">>, <<"{">>, <<" ", "{">>,
      <<"a">>, <<";">> }

\* The text goes on with fragment f; its first character is read.
ReadFunctionsFragment(f) ==
    /\ fpc = "scanning"
    /\ queue = <<>>
    /\ frags < MaxFrags
    /\ frags' = frags + 1
    /\ queue' = Tail(f)
    /\ ReadFunctionsChar(Head(f))
    /\ UNCHANGED <<nfaVars, dfaVars, pureVars, driverVars, idVars, expected>>

FunctionsNext ==
    \/ \E f \in FunctionFragments : ReadFunctionsFragment(f)
    \/ ReadFunctionsNext
    \/ ReadFunctionsReturn

SpecFunctions == Init /\ [][FunctionsNext]_vars

\* C16: every entry into BRACE yields exactly one record, made of the text
\* between the recorded start and end, and leaves the scanner in NONE,
\* also when the `{` that led into BRACE is the last character of the text.
C16_BraceAlwaysEmits ==
    [][ (fpc = "scanning" /\ fsm = <<"BRACE">>) =>
            /\ fpc' = "scanning"
            /\ fsm' = <<"NONE">>
            /\ start <= end
            /\ functions' = Append(functions, SubSeq(text, start + 1, end)) ]_vars

\* The number of `(` of a text less the number of its `)`.
RECURSIVE Depth(_)
Depth(t) ==
    IF t = <<>> THEN 0
    ELSE Depth(Tail(t)) + (IF Head(t) = "(" THEN 1 ELSE IF Head(t) = ")" THEN -1 ELSE 0)

\* C19: a record is pushed only for a candidate whose parentheses closed:
\* the character before the one now read is a `{`; the recorded end is the
\* `(` after an alphanumeric name that begins at the recorded start; from
\* that `(` to the `{` the depth is back at 0; and where a whitespace or a
\* `{` was met at depth 0 before, nothing but whitespace lies from there to
\* the `{`.  So a candidate that never comes back to depth 0, or that another
\* character ends after the whitespace, gives no record.
C19_RecordOnlyAfterParensClose ==
    [][ functions' # functions =>
          LET n == Len(text)
          IN  /\ Len(functions') = Len(functions) + 1
              /\ n >= 1 /\ text[n] = "{"
              /\ start < end /\ end < n /\ text[end + 1] = "("
              /\ \A k \in (start + 1)..end : text[k] \in Letters \cup Digits
              /\ Depth(SubSeq(text, end + 1, n - 1)) = 0
              /\ \A k \in (end + 2)..(n - 1) :
                    (text[k] \in {" ", "{"} /\ Depth(SubSeq(text, end + 1, k - 1)) = 0)
                        => \A m \in k..(n - 1) : text[m] = " " ]_vars

\* A record was pushed for a candidate whose `{` came after whitespace.
C19_Witness ==
    /\ Len(functions) = 1
    /\ fpc = "scanning"
    /\ \E k \in 1..(Len(text) - 2) :
          text[k] = ")" /\ text[k + 1] = " " /\ text[k + 2] = "{"

-----------------------------------------------------------------------------
(* read_identifiers over a text that is any sequence of fragments.         *)

Fragments ==
    { <<"a", " ", "a", ";">>, <<"b", " ", "a", ";">>,
      <<"v", "o", "i", "d", " ", "a", ";">>,
      <<"a", ";">>, <<"a">>, <<" ">>, <<";">>, <<".">>, <<"{">>, <<"}">> }

\* One iteration of the loop, on character c.
ReadIdentifiersChar(c) ==
    LET t == Append(text, c)
        r == IdentifiersStep(t, Len(text), c, ifsm, n1s, n1e, n2s, identifiers, stack)
    IN  /\ text' = t
        /\ ifsm' = r.ifsm
        /\ n1s' = r.n1s
        /\ n1e' = r.n1e
        /\ n2s' = r.n2s
        /\ identifiers' = r.identifiers
        /\ stack' = r.stack
        /\ ipc' = IF r.panic = "" THEN "scanning" ELSE r.panic

\* The text goes on with fragment f; its first character is read.
ReadFragment(f) ==
    /\ ipc = "scanning"
    /\ queue = <<>>
    /\ frags < MaxFrags
    /\ frags' = frags + 1
    /\ queue' = Tail(f)
    /\ ReadIdentifiersChar(Head(f))
    /\ UNCHANGED <<nfaVars, dfaVars, pureVars, driverVars, fnVars>>

\* The next character of the text is read.
ReadIdentifiersNext ==
    /\ ipc = "scanning"
    /\ queue # <<>>
    /\ queue' = Tail(queue)
    /\ ReadIdentifiersChar(Head(queue))
    /\ UNCHANGED <<nfaVars, dfaVars, pureVars, driverVars, fnVars, frags>>

\* The text is at its end: read_identifiers returns v.
ReadIdentifiersReturn ==
    /\ ipc = "scanning"
    /\ queue = <<>>
    /\ ipc' = "returned"
    /\ UNCHANGED <<nfaVars, dfaVars, pureVars, driverVars, fnVars, inputVars, ifsm, n1s, n1e, n2s,
                   identifiers, stack>>

IdentsNext ==
    \/ \E f \in Fragments : ReadFragment(f)
    \/ ReadIdentifiersNext
    \/ ReadIdentifiersReturn

SpecIdents == Init /\ [][IdentsNext]_vars

\* Fragments in which braces and dots interrupt a token.
ChainFragments ==
    { <<" ", "a">>, <<"a", ";">>, <<".", " ">>, <<"a">>, <<" ">>, <<";">>,
      <<".">>, <<"{">>, <<"}">> }

ChainsNext ==
    \/ \E f \in ChainFragments : ReadFragment(f)
    \/ ReadIdentifiersNext
    \/ ReadIdentifiersReturn

SpecChains == Init /\ [][ChainsNext]_vars

-----------------------------------------------------------------------------
(* C5, C8, C9.  The identifier scanner: uses, unbalanced braces, blocks.   *)

\* The step read character c.
Read(c) == text' = Append(text, c)

\* The type the innermost frame of stk that binds name gives it, as a set:
\* empty when no frame binds it.
RECURSIVE Innermost(_, _)
Innermost(stk, name) ==
    IF stk = <<>> THEN {}
    ELSE LET here == {b[2] : b \in {d \in stk[Len(stk)] : d[1] = name}}
         IN  IF here # {} THEN here
             ELSE Innermost(SubSeq(stk, 1, Len(stk) - 1), name)

\* The token that began at n1s ends with the character now read, which is
\* neither part of a name nor whitespace: the token is a use.
UseEnds ==
    /\ ipc = "scanning" /\ ifsm = "NAME1"
    /\ \E c \in {";", ".", "{", "}"} : Read(c)

\* C5: each use of a name that an open frame binds emits exactly one record,
\* whose type is the binding of the innermost open frame that binds the
\* name; no use is reported twice.
C5_UseEmitsOneRecord ==
    [][ /\ UseEnds =>
            LET name == SubSeq(text, n1s + 1, Len(text))
                typs == Innermost(stack, name)
            IN  typs # {} =>
                    \E y \in typs :
                        identifiers' =
                            Append(identifiers, Identifier(name, y, n1s, Len(text)))
        /\ \A j, k \in 1..Len(identifiers') :
               identifiers'[j] = identifiers'[k] => j = k ]_vars

\* C8: read_identifiers does not fail for want of a frame, whatever closing
\* braces the text has: no `}` and no declaration after it panics.
C8_UnbalancedBraceIsNoOp == ipc # "unwrap"

\* C9: a `}` drops the innermost frame and leaves the frames below it as
\* they were; a `{` adds an empty frame; any other character leaves all
\* frames but the innermost as they were, and the innermost one with the
\* bindings it had; the record of a use names a binding of a frame that is
\* still open; the use of a after `{a a;}` emits nothing.
C9_BindingsDoNotLeak ==
    [][ /\ Read("}") =>
            /\ Len(stack') = IF Len(stack) = 0 THEN 0 ELSE Len(stack) - 1
            /\ \A k \in 1..Len(stack') : stack'[k] = stack[k]
        /\ Read("{") =>
            /\ Len(stack') = Len(stack) + 1
            /\ stack'[Len(stack')] = {}
            /\ \A k \in 1..Len(stack) : stack'[k] = stack[k]
        /\ (text' # text /\ ~Read("}") /\ ~Read("{")) =>
            /\ Len(stack') = Len(stack)
            /\ \A k \in 1..(Len(stack) - 1) : stack'[k] = stack[k]
            /\ Len(stack) > 0 =>
                 \A b \in stack[Len(stack)] :
                    \E d \in stack'[Len(stack)] : d[1] = b[1]
        /\ (identifiers' # identifiers /\ ifsm \in {"NAME1", "SPACE"}) =>
            /\ Len(identifiers') = Len(identifiers) + 1
            /\ \E k \in 1..Len(stack') :
                  <<identifiers'[Len(identifiers')].name,
                    identifiers'[Len(identifiers')].typ>> \in stack'[k]
        /\ text' = <<"{", "a", " ", "a", ";", "}", "a", ";">> =>
            identifiers' = <<Identifier(<<"a">>, <<"a">>, 3, 4)>>
      ]_vars

\* A name declared in a block was used after the block, and no record of
\* the use was made.
C9_Witness ==
    /\ text = <<"{", "a", " ", "a", ";", "}", "a", ";">>
    /\ ifsm = "NONE"
    /\ stack = <<{}>>
    /\ Len(identifiers) = 1

-----------------------------------------------------------------------------
(* main: the walk over the file tree, after the query has been parsed.     *)
(* One action is one iteration of the `for entry in ...` loop.             *)

\* What the files of the tree hold.
Contents ==
    { <<>>,
      <<"a", " ", "a", ";">>,
      <<"a", " ", "a", "(", ")", " ", "{", "}">>,
      <<"}", "a", " ", "a", ";">>,
      <<"a", " ", "U", "(", ")", " ", "{", "}">> }

Walking == dpc = "walking" /\ Len(walked) < MaxFiles

\* The walk yields an Err: filter_map(|e| e.ok()) drops it.
WalkError ==
    /\ Walking
    /\ walked' = Append(walked, [kind |-> "error"])
    /\ UNCHANGED <<nfaVars, dfaVars, pureVars, scanVars, outputs, dpc>>

\* The entry is not a regular file: path.is_file() is false.
WalkDirectory ==
    /\ Walking
    /\ walked' = Append(walked, [kind |-> "directory"])
    /\ UNCHANGED <<nfaVars, dfaVars, pureVars, scanVars, outputs, dpc>>

\* The entry is a file and fs::read_to_string fails: the `if let Ok` body is
\* not entered.
WalkUnreadable ==
    /\ Walking
    /\ walked' = Append(walked, [kind |-> "file", readable |-> FALSE])
    /\ UNCHANGED <<nfaVars, dfaVars, pureVars, scanVars, outputs, dpc>>

\* The entry is a file and is read: its functions and identifiers are
\* printed, then the number of matches.  A panic of a scanner ends main.
WalkFile(contents) ==
    LET fns == read_functions(contents)
        ids == read_identifiers(contents)
    IN  /\ Walking
        /\ walked' = Append(walked, [kind |-> "file", readable |-> TRUE,
                                     contents |-> contents])
        /\ IF fns.ok /\ ids.ok
           THEN /\ outputs' = Append(outputs, [entry |-> Len(walked) + 1,
                                               functions |-> fns.functions,
                                               identifiers |-> ids.identifiers])
                /\ dpc' = dpc
           ELSE /\ outputs' = outputs
                /\ dpc' = "panicked"
        /\ UNCHANGED <<nfaVars, dfaVars, pureVars, scanVars>>

\* The walk is over: main returns Ok(()).
WalkEnd ==
    /\ dpc = "walking"
    /\ dpc' = "done"
    /\ UNCHANGED <<nfaVars, dfaVars, pureVars, scanVars, walked, outputs>>

DriverNext ==
    \/ WalkError
    \/ WalkDirectory
    \/ WalkUnreadable
    \/ \E contents \in Contents : WalkFile(contents)
    \/ WalkEnd

SpecDriver == Init /\ [][DriverNext]_vars

\* The entries of the walk that are files main could read.
Readable ==
    {n \in 1..Len(walked) : walked[n].kind = "file" /\ walked[n].readable}

\* C13: when a file of the walk cannot be read, that file is skipped and
\* nothing else is: main does not abort, every readable file walked so far
\* has been processed, in the order of the walk, and no other entry has.
C13_ReadFailureSkipsOneFile ==
    (\E n \in 1..Len(walked) : walked[n] = [kind |-> "file", readable |-> FALSE]) =>
        /\ dpc # "panicked"
        /\ {outputs[n].entry : n \in 1..Len(outputs)} = Readable
        /\ \A n, m \in 1..Len(outputs) :
              n < m => outputs[n].entry < outputs[m].entry

-----------------------------------------------------------------------------
(* C7.                                                                     *)

\* Arena b is arena a with transition t put at the end of node `from`,
\* every other node as it was.
Appended(a, b, from, t) ==
    /\ Len(b) = Len(a)
    /\ b[from + 1] = a[from + 1] \o <<t>>
    /\ \A n \in 1..Len(a) : n # from + 1 => b[n] = a[n]

\* What a builder call with source `from` must return on arena a.
MutatorContract(a, r, from, kind, to) ==
    /\ from >= Len(a) => ~r.ok
    /\ from < Len(a) => r.ok /\ Appended(a, r.nfa, from, [kind |-> kind, dest |-> to])

GroupContract(a, r, sf, st, ef, et, num) ==
    /\ (sf >= Len(a) \/ ef >= Len(a)) => ~r.ok
    /\ (sf < Len(a) /\ ef < Len(a)) =>
          /\ r.ok
          /\ \E mid \in {[a EXCEPT ![sf + 1] =
                              @ \o <<[kind |-> <<"Open", num>>, dest |-> st]>>]} :
                Appended(mid, r.nfa, ef, [kind |-> <<"Close", num>>, dest |-> et])

\* C7: on every arena the builder can produce, every arena mutator returns
\* the invalid-source error when a `from` node it is given is out of range
\* for the arena, and otherwise succeeds, having appended its transition at
\* the end of the source node's transition list.
C7_MutatorsCheckSource ==
    /\ \A from \in Pointers, to \in Dests, on \in Labels :
          MutatorContract(nfa, add_transition_alpha(nfa, from, to, on),
                          from, <<"Alpha", on>>, to)
    /\ \A from \in Pointers, to \in Dests, s \in RangeStrings :
          /\ MutatorContract(nfa, add_transition_range(nfa, from, to, s),
                             from, <<"Range", s>>, to)
          /\ MutatorContract(nfa, add_transition_negativerange(nfa, from, to, s),
                             from, <<"NegativeRange", s>>, to)
          /\ MutatorContract(nfa, add_transition_queryset(nfa, from, to, s),
                             from, <<"QuerySetRange", s>>, to)
    /\ \A from \in Pointers, to \in Dests :
          MutatorContract(nfa, add_transition_epsilon(nfa, from, to),
                          from, <<"Epsilon">>, to)
    /\ \A sf \in Pointers, st \in Dests, ef \in Pointers, et \in Dests,
          num \in GroupNums :
          GroupContract(nfa, add_group(nfa, sf, st, ef, et, num), sf, st, ef, et, num)

\* A call has failed on an arena one of whose nodes already holds two
\* transitions, the second appended behind the first.
C7_Witness ==
    /\ res = "err"
    /\ \E n \in 1..Len(nfa) : Len(nfa[n]) = 2 /\ nfa[n][1] # nfa[n][2]

-----------------------------------------------------------------------------
(* C3, C4, C10: what step and add_epsilons compute, stated over paths.     *)

\* Node p has an Epsilon transition to q.
EpsEdge(a, p, q) ==
    /\ HasNode(a, p)
    /\ \E i \in 1..Len(get(a, p)) :
          get(a, p)[i] = [kind |-> <<"Epsilon">>, dest |-> q]

\* q is reached from a node of S along Epsilon transitions only.
EpsReachable(a, S, q) ==
    \E n \in 1..Cardinality(Pointers) :
        \E path \in [1..n -> Pointers] :
            /\ path[1] \in S
            /\ path[n] = q
            /\ \A i \in 1..(n - 1) : EpsEdge(a, path[i], path[i + 1])

EpsClosure(a, S) == {q \in Pointers : EpsReachable(a, S, q)}

\* No Epsilon transition leads out of S.
EpsClosed(a, S) == \A p \in S, q \in Pointers : EpsEdge(a, p, q) => q \in S

\* Transition t consumes symbol c: a Literal equal to c, a CharSet holding
\* c, a NegatedCharSet not holding c.
Consumes(t, c) ==
    \/ t.kind[1] = "Alpha" /\ t.kind[2] = c
    \/ t.kind[1] = "Range" /\ c \in {t.kind[2][i] : i \in 1..Len(t.kind[2])}
    \/ t.kind[1] = "NegativeRange"
          /\ c \notin {t.kind[2][i] : i \in 1..Len(t.kind[2])}

\* The destinations of the transitions that leave a node of S and consume c.
Consumed(a, S, c) ==
    {get(a, p)[i].dest : <<p, i>> \in
        {pi \in (S \cap 0..(Len(a) - 1)) \X (1..MaxTrans) :
            /\ pi[2] <= Len(get(a, pi[1]))
            /\ Consumes(get(a, pi[1])[pi[2]], c)}}

\* C3: step returns exactly the epsilon-closure of the destinations of the
\* transitions that leave an active node and whose kind matches the symbol;
\* Epsilon, QuerySetRange, Open and Close transitions contribute nothing to
\* the set that is closed.
C3_StepIsClosureOfMatches ==
    \A c \in Atom : step(ctx, nfa, c) = EpsClosure(nfa, Consumed(nfa, ctx, c))

\* A step has been taken over an arena one of whose nodes has a
\* QuerySetRange, Open or Close transition to a node the step did not reach,
\* and the step reached some node.
C3_Witness ==
    /\ res = "step"
    /\ ctx # {}
    /\ \E n \in 1..Len(nfa) : \E i \in 1..Len(nfa[n]) :
          /\ nfa[n][i].kind[1] \in {"QuerySetRange", "Open", "Close"}
          /\ nfa[n][i].dest \notin ctx

\* C4: add_epsilons ends, after no more passes than there are pointers
\* plus one, with the epsilon-closure of its input: the input is in it, no
\* Epsilon transition leaves it, every member is reached from the input by
\* Epsilon transitions only.  What step leaves is such a closed set.
C4_ClosureIsFixpoint ==
    /\ LET r == add_epsilons_loop(ctx, nfa, 0)
       IN  /\ r.passes <= Cardinality(Pointers) + 1
           /\ ctx \subseteq r.nodes
           /\ EpsClosed(nfa, r.nodes)
           /\ \A q \in r.nodes : EpsReachable(nfa, ctx, q)
    /\ res \in {"step", "closure"} => EpsClosed(nfa, ctx)

\* A closure has been computed over an arena with an Epsilon cycle (a
\* self-loop, or two nodes with Epsilon transitions to each other), and it
\* holds a node of the cycle.
C4_Witness ==
    /\ res = "closure"
    /\ \E p \in ctx, q \in ctx : EpsEdge(nfa, p, q) /\ EpsEdge(nfa, q, p)

\* C10: closing a closed set changes nothing:
\* add_epsilons(add_epsilons(S)) = add_epsilons(S).
C10_ClosureIdempotent ==
    /\ add_epsilons(add_epsilons(ctx, nfa), nfa) = add_epsilons(ctx, nfa)
    /\ res = "closure" => add_epsilons(ctx, nfa) = ctx

\* A closure has been computed that holds a node two Epsilon transitions
\* away from another of its nodes, and no closer.
C10_Witness ==
    /\ res = "closure"
    /\ \E p \in ctx, m \in ctx, q \in ctx :
          /\ EpsEdge(nfa, p, m) /\ EpsEdge(nfa, m, q)
          /\ ~EpsEdge(nfa, p, q) /\ p # m /\ m # q /\ p # q

-----------------------------------------------------------------------------
(* C12.                                                                    *)

\* C12: stepping is pure: a step of one scan leaves the arena as it was and
\* every Context made before, its own and the other scans', as it was, and
\* adds one Context; so, however the steps of the scans interleave, the
\* i-th Context of each scan is what stepping its first Context over the
\* first i-1 symbols of that scan alone gives.
C12_SteppingIsPure ==
    [][ scans' # scans =>
          /\ nfa' = nfa
          /\ \A k \in Scans :
                /\ Len(scans'[k].sets) >= Len(scans[k].sets)
                /\ \A i \in 1..Len(scans[k].sets) :
                      scans'[k].sets[i] = scans[k].sets[i]
                /\ scans'[k] # NoScan =>
                      Len(scans'[k].sets) = Len(scans'[k].fed) + 1
                /\ \A i \in 1..Len(scans'[k].fed) :
                      scans'[k].sets[i + 1] =
                          step(scans'[k].sets[i], nfa, scans'[k].fed[i])
      ]_vars

\* Both scans have stepped, over different inputs, and hold different
\* active sets that are not the ones they began with.
C12_Witness ==
    /\ \A k \in Scans : scans[k].fed # <<>>
    /\ scans["x"].fed # scans["y"].fed
    /\ scans["x"].sets[Len(scans["x"].sets)] # scans["y"].sets[Len(scans["y"].sets)]
    /\ \E k \in Scans : scans[k].sets[Len(scans[k].sets)] \notin {{}, scans[k].sets[1]}

-----------------------------------------------------------------------------
(* C15.                                                                    *)

\* The destinations of the transitions of arena a that are not Epsilon.
Destinations(a) ==
    {a[n][i].dest : <<n, i>> \in
        {ni \in (1..Len(a)) \X (1..MaxTrans) :
            /\ ni[2] <= Len(a[ni[1]])
            /\ a[ni[1]][ni[2]].kind # <<"Epsilon">>}}

\* C15: to_dfa works on node-sets of the source automaton: the first set on
\* the worklist is the epsilon-closure, in the source arena, of the source
\* pattern's start node, and every other set is the epsilon-closure, in the
\* source arena, of the destination of a source transition.
C15_SetsOfTheSource ==
    (Compiled /\ WellFormed(model)) =>
        /\ dfa.ok
        /\ Elements(dfa.pushed[1]) = EpsClosure(model.nfa, {model.start})
        /\ \A i \in 2..Len(dfa.pushed) :
              \E d \in Destinations(model.nfa) :
                  Elements(dfa.pushed[i]) = EpsClosure(model.nfa, {d})

-----------------------------------------------------------------------------
(* C17, C18.  The identifier scanner: dotted chains and declarations.      *)

\* The index, from 0, of the first character of the run of whitespace that
\* ends just before index e; e when there is no such run.
RECURSIVE RunStart(_, _)
RunStart(t, e) ==
    IF e > 0 /\ t[e] = " " THEN RunStart(t, e - 1) ELSE e

\* The scanner is in a dotted chain: in DOT, or in SPACE or NAME2 reached
\* from DOT, so that the whitespace before the current position does not
\* begin where the first token was recorded to end.
InChain ==
    /\ ipc = "scanning"
    /\ \/ ifsm = "DOT"
       \/ ifsm = "SPACE" /\ n1e # RunStart(text, Len(text))
       \/ ifsm = "NAME2" /\ n1e # RunStart(text, n2s)

\* C17: while the scanner is in a dotted chain, reading a character emits
\* no record and inserts no binding: every frame is a frame it was or an
\* empty one.
C17_NothingAcrossDottedChain ==
    [][ (InChain /\ text' # text) =>
            /\ identifiers' = identifiers
            /\ \A k \in 1..Len(stack') :
                  stack'[k] = {} \/ (k <= Len(stack) /\ stack'[k] = stack[k]) ]_vars

\* The second token of a `Type name` pair ends with the character now read,
\* which is no brace; the pair is not part of a dotted chain.
DeclarationEnds ==
    /\ ipc = "scanning" /\ ifsm = "NAME2" /\ ~InChain
    /\ \E c \in {";", ".", " "} : Read(c)

\* C18: when a `Type name` declaration ends and neither token is a
\* disallowed keyword, one record of the name with the type and the offsets
\* of the name is emitted and name -> type is bound in the innermost frame,
\* the other frames staying as they were; when either token is disallowed,
\* no record is emitted and no frame changes; in both cases the scan goes on.
C18_DeclarationIffAllowed ==
    [][ DeclarationEnds =>
          LET name == SubSeq(text, n2s + 1, Len(text))
              typ  == SubSeq(text, n1s + 1, n1e)
              top  == Len(stack)
          IN  /\ ipc' = "scanning"
              /\ Len(stack') = top
              /\ IF name \notin Keywords /\ typ \notin Keywords
                 THEN /\ identifiers' =
                            Append(identifiers, Identifier(name, typ, n2s, Len(text)))
                      /\ top > 0
                      /\ <<name, typ>> \in stack'[top]
                      /\ \A k \in 1..(top - 1) : stack'[k] = stack[k]
                 ELSE /\ identifiers' = identifiers
                      /\ stack' = stack ]_vars

-----------------------------------------------------------------------------
(* C20.  The identifier scanner: the offsets of the tokens it extracts.    *)

\* C20: no extraction of a token fails for a start offset past its end
\* offset, and every record emitted has its start before its end.
C20_TokenOffsetsOrdered ==
    /\ ipc # "slice"
    /\ \A k \in 1..Len(identifiers) : identifiers[k].start < identifiers[k].end

-----------------------------------------------------------------------------
(* C21.  A builder call that fails.                                        *)

\* The result r of a builder call on arena a, when it is the invalid-source
\* error, comes with the arena as it was: the same nodes, each with the
\* transitions it had.
FailureLeavesArena(a, r) ==
    ~r.ok =>
        /\ Len(r.nfa) = Len(a)
        /\ \A n \in 1..Len(a) : r.nfa[n] = a[n]

\* C21: on every arena the builder can produce, a builder call that returns
\* the invalid-source error leaves the node count and every node's
\* transition list as they were before the call; add_group with a valid
\* start_from and an out-of-range end_from adds neither edge.
C21_FailureLeavesArenaUnchanged ==
    /\ \A from \in Pointers, to \in Dests, on \in Labels :
          FailureLeavesArena(nfa, add_transition_alpha(nfa, from, to, on))
    /\ \A from \in Pointers, to \in Dests, s \in RangeStrings :
          /\ FailureLeavesArena(nfa, add_transition_range(nfa, from, to, s))
          /\ FailureLeavesArena(nfa, add_transition_negativerange(nfa, from, to, s))
          /\ FailureLeavesArena(nfa, add_transition_queryset(nfa, from, to, s))
    /\ \A from \in Pointers, to \in Dests :
          FailureLeavesArena(nfa, add_transition_epsilon(nfa, from, to))
    /\ \A sf \in Pointers, st \in Dests, ef \in Pointers, et \in Dests,
          num \in GroupNums :
          FailureLeavesArena(nfa, add_group(nfa, sf, st, ef, et, num))

====
